---- MODULE Spec2Model ----
(***************************************************************************)
(* vsim: the election engine.  allocate_votes, the four voting systems     *)
(* (Plurality, Majority, ApprovalVoting, ProportionalRepresentation) and   *)
(* the part of VotingSimulator.run that indexes the candidates matrix and  *)
(* weights the candidates.                                                 *)
(*                                                                         *)
(* Matrices are functions on 0..n-1 (the source's row indices); a position *)
(* is a point of a one-issue space (--issues 1), an integer.  Candidates   *)
(* sit on multiples of 4 and voters on odd points, so no voter is at the   *)
(* same distance from two candidates: the KDTree's answer is then decided  *)
(* by the distances alone.  Shares, thresholds and np.random.rand() draws  *)
(* are in percent.                                                         *)
(***************************************************************************)
EXTENDS Integers, FiniteSets, Sequences, TLC

\* ---------------------------------------------------------------- bounds
MaxVoters == 4
MaxCands == 3
MaxSeats == 3
MaxRounds == 4

CandPos == {0, 4, 8, 12}
VoterPos == {1, 5, 11}
\* representatives of np.random.rand() in [0, 1)
Draws == {25, 75}
ApathyProbs == {0, 50, 100}
\* for the two systems that never read self.apathy_prob
ApathyProbsUnread == {0, 100}
ShareThresholds == {0, 50, 100}
MinShareThresholds == {4, 50}
RoundKnockouts == {1, 2}
Systems == {"plurality", "majority", "approval", "proportional"}

VARIABLES system, electorate, candidates, apathy_prob, threshold, knockouts,
          n_approvals_per_voter, seats, pc, round_candidates, results,
          knocked_out, electoral_vote_count, allocated_seats, seats_allocated,
          result, votes_total, avg_distances_weights, fairness_rows

vars == <<system, electorate, candidates, apathy_prob, threshold, knockouts,
          n_approvals_per_voter, seats, pc, round_candidates, results,
          knocked_out, electoral_vote_count, allocated_seats, seats_allocated,
          result, votes_total, avg_distances_weights, fairness_rows>>

config == <<system, electorate, candidates, apathy_prob, threshold, knockouts,
            n_approvals_per_voter, seats>>

\* ---------------------------------------------------------------- helpers
\* ndarray.shape[0]
Shape(m) == Cardinality(DOMAIN m)

\* an empty dict / no rows
Empty == [i \in {} |-> 0]

Min(S) == CHOOSE x \in S : \A y \in S : x <= y

RECURSIVE SumOver(_, _)
SumOver(f, S) ==
    IF S = {} THEN 0
    ELSE LET k == Min(S) IN f[k] + SumOver(f, S \ {k})

\* sum(d.values())
Sum(f) == SumOver(f, DOMAIN f)

\* ElectionResult
ElectionResult(winners, cast_votes) ==
    [winners |-> winners, cast_votes |-> cast_votes]

NoResult == ElectionResult({}, Empty)

\* Euclidean distance in a one-issue space
Dist(a, b) == IF a >= b THEN a - b ELSE b - a

\* Query with the number of votes ignored: only the nearest candidate
QueryNearestOnly(cands, voter, k) ==
    {c \in DOMAIN cands :
        \A d \in DOMAIN cands : Dist(voter, cands[c]) <= Dist(voter, cands[d])}

\* Query off by one: a candidate too many
QueryOneMore(cands, voter, k) ==
    {c \in DOMAIN cands :
        Cardinality({d \in DOMAIN cands :
                        Dist(voter, cands[d]) < Dist(voter, cands[c])}) <= k}

\* KDTree(candidates).query(voter, k)[1]: the k candidates nearest to the voter
Query(cands, voter, k) ==
    {c \in DOMAIN cands :
        Cardinality({d \in DOMAIN cands :
                        Dist(voter, cands[d]) < Dist(voter, cands[c])}) < k}

\* the voters whose np.random.rand() draw is below apathy_prob, for every way
\* the draws can fall
Apathetic(elect, apathy) ==
    {{i \in DOMAIN elect : draws[i] < apathy} : draws \in [DOMAIN elect -> Draws]}

\* allocate_votes: the loop over the voters, from voter i on
RECURSIVE AllocateLoop(_, _, _, _, _, _)
AllocateLoop(elect, cands, votes, apathetic, i, counted_votes) ==
    IF i = Shape(elect) THEN counted_votes
    ELSE IF i \in apathetic
         THEN AllocateLoop(elect, cands, votes, apathetic, i + 1, counted_votes)
         ELSE LET closest == Query(cands, elect[i], votes)
              IN AllocateLoop(elect, cands, votes, apathetic, i + 1,
                              [c \in DOMAIN cands |->
                                  IF c \in closest THEN counted_votes[c] + 1
                                  ELSE counted_votes[c]])

\* allocate_votes, given the voters its draws make apathetic
allocate_votes(elect, cands, votes, apathetic) ==
    AllocateLoop(elect, cands, votes, apathetic, 0, [c \in DOMAIN cands |-> 0])

\* every tally allocate_votes can return
Tallies(elect, cands, votes, apathy) ==
    {allocate_votes(elect, cands, votes, a) : a \in Apathetic(elect, apathy)}

\* max(d.items(), key=operator.itemgetter(1)) and max(d, key=d.get): the keys in
\* dict order (ascending), the first of the largest kept
RECURSIVE MaxLoop(_, _, _)
MaxLoop(f, rest, best) ==
    IF rest = {} THEN best
    ELSE LET k == Min(rest)
         IN MaxLoop(f, rest \ {k}, IF f[k] > f[best] THEN k ELSE best)

\* MaxItem keeping the last of the largest
MaxItemLast(f) ==
    CHOOSE k \in DOMAIN f :
        \A j \in DOMAIN f : f[j] < f[k] \/ (f[j] = f[k] /\ j <= k)

MaxItem(f) == MaxLoop(f, DOMAIN f \ {Min(DOMAIN f)}, Min(DOMAIN f))

\* ---------------------------------------------------------------- Init
Matrices(n, Pos) == [0 .. n - 1 -> Pos]

\* the rows of a generated electorate come in no particular order and every
\* operation treats them alike: they are listed by position
Electorates ==
    UNION {{e \in Matrices(n, VoterPos) :
               \A i, j \in DOMAIN e : i < j => e[i] <= e[j]} : n \in 1 .. MaxVoters}

\* candidates are distinct points, in any order
CandidateSets ==
    UNION {{c \in Matrices(n, CandPos) :
               \A i, j \in DOMAIN c : i # j => c[i] # c[j]} : n \in 1 .. MaxCands}

InitRun ==
    /\ pc = "start"
    /\ round_candidates = candidates
    /\ results = <<>>
    /\ knocked_out = {}
    /\ electoral_vote_count = Empty
    /\ allocated_seats = Empty
    /\ seats_allocated = 0
    /\ result = NoResult
    /\ votes_total = 0
    /\ avg_distances_weights = Empty
    /\ fairness_rows = {}

Init ==
    /\ system \in Systems
    /\ electorate \in Electorates
    /\ candidates \in CandidateSets
    /\ apathy_prob \in IF system \in {"plurality", "approval"} THEN ApathyProbs
                       ELSE ApathyProbsUnread
    /\ threshold \in IF system = "majority" THEN ShareThresholds
                     ELSE IF system = "proportional" THEN MinShareThresholds
                     ELSE {0}
    /\ knockouts \in IF system = "majority" THEN RoundKnockouts ELSE {0}
    /\ n_approvals_per_voter \in IF system = "approval" THEN 1 .. MaxCands ELSE {0}
    /\ seats \in IF system = "proportional" THEN 1 .. MaxSeats ELSE {0}
    /\ InitRun

\* ---------------------------------------------------------------- Plurality
PluralityElect ==
    /\ pc = "start"
    /\ system = "plurality"
    /\ \E tally \in Tallies(electorate, candidates, 1, apathy_prob) :
          /\ electoral_vote_count' = tally
          /\ result' = ElectionResult({MaxItem(tally)}, tally)
    /\ pc' = "elected"
    /\ UNCHANGED <<config, round_candidates, results, knocked_out, allocated_seats,
                   seats_allocated, votes_total, avg_distances_weights, fairness_rows>>

\* ---------------------------------------------------------------- ApprovalVoting
ApprovalElect ==
    /\ pc = "start"
    /\ system = "approval"
    /\ n_approvals_per_voter <= Shape(candidates)
    /\ \E tally \in Tallies(electorate, candidates, n_approvals_per_voter,
                            apathy_prob) :
          /\ electoral_vote_count' = tally
          /\ result' = ElectionResult({MaxItem(tally)}, tally)
    /\ pc' = "elected"
    /\ UNCHANGED <<config, round_candidates, results, knocked_out, allocated_seats,
                   seats_allocated, votes_total, avg_distances_weights, fairness_rows>>

\* assert self.n_approvals_per_voter <= n_candidates, "more votes than candidates"
ApprovalAssertFails ==
    /\ pc = "start"
    /\ system = "approval"
    /\ ~(n_approvals_per_voter <= Shape(candidates))
    /\ pc' = "error"
    /\ UNCHANGED <<config, round_candidates, results, knocked_out,
                   electoral_vote_count, allocated_seats, seats_allocated, result,
                   votes_total, avg_distances_weights, fairness_rows>>

\* ---------------------------------------------------------------- Majority
\* sorted(items, key=operator.itemgetter(1), reverse=True): by descending count,
\* equal counts in their dict order (the sort is stable); the place of key c
SortedPlace(tally, c) ==
    Cardinality({d \in DOMAIN tally :
                    \/ tally[d] > tally[c]
                    \/ (tally[d] = tally[c] /\ d < c)})

\* the list named worst_performers
worst_performers(tally) ==
    [p \in 0 .. Shape(tally) - 1 |->
        CHOOSE c \in DOMAIN tally : SortedPlace(tally, c) = p]

\* the while loop that lowers knockouts_to_apply
RECURSIVE ClampLoop(_, _, _)
ClampLoop(n_keys, knockouts_to_apply, candidates_remaining) ==
    IF candidates_remaining < 2
    THEN ClampLoop(n_keys, knockouts_to_apply - 1, n_keys - knockouts_to_apply)
    ELSE knockouts_to_apply

KnockoutsToApply(n_keys, round_knockouts) ==
    ClampLoop(n_keys, round_knockouts, n_keys - round_knockouts)

\* lst[:k], as the set of its elements: a negative k counts from the end
SliceTo(lst, k) ==
    LET n == Shape(lst)
        stop == IF k >= 0 THEN (IF k < n THEN k ELSE n)
                ELSE (IF n + k > 0 THEN n + k ELSE 0)
    IN {lst[p] : p \in 0 .. stop - 1}

\* np.delete(m, rows, axis=0): the rows kept, in order, renumbered from 0
Delete(m, rows) ==
    LET kept == DOMAIN m \ rows
    IN [p \in 0 .. Cardinality(kept) - 1 |->
           m[CHOOSE c \in kept : Cardinality({d \in kept : d < c}) = p]]

\* MajorityTallies with self.apathy_prob handed on
MajorityTalliesWithApathy(cands) == Tallies(electorate, cands, 1, apathy_prob)

\* allocate_votes(electorate, candidates, votes=1) of elect_rec: apathy_prob is
\* left at its default, 0.0
MajorityTallies(cands) == Tallies(electorate, cands, 1, 0)

\* winner_share > self.threshold
AboveThreshold(tally, winner_idx) ==
    tally[winner_idx] * 100 > threshold * Shape(electorate)

\* knocked_out
KnockedOut(tally) ==
    SliceTo(worst_performers(tally), KnockoutsToApply(Shape(tally), knockouts))

\* one call of elect_rec: a round over round_candidates
MajorityRound ==
    /\ system = "majority"
    /\ pc \in {"start", "round"}
    /\ Len(results) < MaxRounds
    /\ \E tally \in MajorityTallies(round_candidates) :
       \E winner_idx \in {MaxItem(tally)} :
          /\ electoral_vote_count' = tally
          /\ results' = Append(results, ElectionResult({winner_idx}, tally))
          /\ IF AboveThreshold(tally, winner_idx)
             THEN /\ pc' = "elected"
                  /\ result' = ElectionResult({winner_idx}, tally)
                  /\ UNCHANGED <<knocked_out, round_candidates>>
             ELSE /\ pc' = "round"
                  /\ knocked_out' = KnockedOut(tally)
                  /\ round_candidates' = Delete(round_candidates, knocked_out')
                  /\ UNCHANGED result
    /\ UNCHANGED <<config, allocated_seats, seats_allocated, votes_total,
                   avg_distances_weights, fairness_rows>>

\* a round that knocks nobody out calls itself with the same candidates, again
\* and again, until Python's recursion limit ends the run
MajorityRecursionError ==
    /\ system = "majority"
    /\ pc = "round"
    /\ Len(results) = MaxRounds
    /\ pc' = "error"
    /\ UNCHANGED <<config, round_candidates, results, knocked_out,
                   electoral_vote_count, allocated_seats, seats_allocated, result,
                   votes_total, avg_distances_weights, fairness_rows>>

\* ---------------------------------------------------------------- ProportionalRepresentation
\* allocate_votes(electorate, candidates) of elect: votes and apathy_prob are
\* left at their defaults, 1 and 0.0
ProportionalTallies == Tallies(electorate, candidates, 1, 0)

\* round(num / den) for num >= 0, den > 0: Python rounds a half to the even
\* neighbour
Round(num, den) ==
    LET q == num \div den
        r == num % den
    IN IF 2 * r < den THEN q
       ELSE IF 2 * r > den THEN q + 1
       ELSE IF q % 2 = 0 THEN q ELSE q + 1

\* the keys of candidate_votes_under_threshold
UnderThreshold(tally) ==
    {c \in DOMAIN tally : tally[c] * 100 < threshold * Shape(electorate)}

\* the dict allocated_seats, before the loop that adds seats
AllocatedSeats(tally) ==
    LET under == UnderThreshold(tally)
        remaining_votes == Shape(electorate) - SumOver(tally, under)
    IN [c \in DOMAIN tally \ under |-> Round(tally[c] * seats, remaining_votes)]

\* elect, up to the loop
ProportionalAllocate ==
    /\ system = "proportional"
    /\ pc = "start"
    /\ \E tally \in ProportionalTallies :
          /\ electoral_vote_count' = tally
          /\ allocated_seats' = AllocatedSeats(tally)
          /\ seats_allocated' = Sum(allocated_seats')
    /\ pc' = "seats"
    /\ UNCHANGED <<config, round_candidates, results, knocked_out, result,
                   votes_total, avg_distances_weights, fairness_rows>>

\* one turn of the loop: while seats_allocated < self.seats
ProportionalAddSeat ==
    /\ system = "proportional"
    /\ pc = "seats"
    /\ seats_allocated < seats
    /\ \E cand \in DOMAIN allocated_seats :
          allocated_seats' = [allocated_seats EXCEPT ![cand] = @ + 1]
    /\ seats_allocated' = seats_allocated + 1
    /\ UNCHANGED <<config, pc, round_candidates, results, knocked_out,
                   electoral_vote_count, result, votes_total,
                   avg_distances_weights, fairness_rows>>

\* random.choice of an empty list: no candidate reached the threshold
ProportionalChoiceFails ==
    /\ system = "proportional"
    /\ pc = "seats"
    /\ seats_allocated < seats
    /\ DOMAIN allocated_seats = {}
    /\ pc' = "error"
    /\ UNCHANGED <<config, round_candidates, results, knocked_out,
                   electoral_vote_count, allocated_seats, seats_allocated, result,
                   votes_total, avg_distances_weights, fairness_rows>>

\* elect, after the loop
ProportionalFinish ==
    /\ system = "proportional"
    /\ pc = "seats"
    /\ ~(seats_allocated < seats)
    /\ result' = ElectionResult({MaxItem(allocated_seats)}, allocated_seats)
    /\ pc' = "elected"
    /\ UNCHANGED <<config, round_candidates, results, knocked_out,
                   electoral_vote_count, allocated_seats, seats_allocated,
                   votes_total, avg_distances_weights, fairness_rows>>

\* ---------------------------------------------------------------- VotingSimulator
\* calculate_fairness: the rows of self.candidates it measures the voters against
FairnessRows(res) == {candidates[winner] : winner \in res.winners}

\* calculate_weighted_fairness: avg_distances_weights, each weight times
\* votes_total (the loop runs over the keys of the dict avg_distances)
AvgDistancesWeights(res) == [dist \in DOMAIN res.cast_votes |-> dist]

\* run, after elect: the two fairness scores
Score ==
    /\ pc = "elected"
    /\ fairness_rows' = FairnessRows(result)
    /\ votes_total' = Sum(result.cast_votes)
    /\ avg_distances_weights' = AvgDistancesWeights(result)
    /\ pc' = "scored"
    /\ UNCHANGED <<config, round_candidates, results, knocked_out,
                   electoral_vote_count, allocated_seats, seats_allocated, result>>

Next ==
    \/ PluralityElect
    \/ ApprovalElect
    \/ ApprovalAssertFails
    \/ MajorityRound
    \/ MajorityRecursionError
    \/ ProportionalAllocate
    \/ ProportionalAddSeat
    \/ ProportionalChoiceFails
    \/ ProportionalFinish
    \/ Score

Spec == Init /\ [][Next]_vars

\* ---------------------------------------------------------------- properties
Elected == pc \in {"elected", "scored"}

n_voters == Shape(electorate)

n_candidates == Shape(candidates)

\* the tally of the round that ran last
LastTally == results[Len(results)].cast_votes

\* C1: Majority.elect returns after at most n - 1 allocation rounds, every
\* non-terminal round handing strictly fewer candidates to the next one.
C1_TerminatesWithinNMinusOneRounds ==
    (system = "majority" /\ n_candidates >= 2) =>
        /\ Len(results) <= n_candidates - 1
        /\ pc = "round" => Shape(round_candidates) < Shape(LastTally)
        /\ pc # "error"

\* C2: the seats ProportionalRepresentation.elect returns sum to exactly
\* seats_to_allocate, never fewer and never more.
C2_SeatsSumToSeatsToAllocate ==
    (system = "proportional" /\ Elected) => Sum(result.cast_votes) = seats

\* C3: after every Majority round each index of the candidates in play denotes
\* the row with that index in the original candidates matrix, and the rows
\* calculate_fairness reads for the winners are the rows that led the final round.
C3_IndicesStable ==
    (system = "majority" /\ Len(results) >= 1) =>
        /\ \A k \in DOMAIN round_candidates :
              k \in DOMAIN candidates /\ round_candidates[k] = candidates[k]
        /\ pc = "scored" =>
              fairness_rows = {round_candidates[w] : w \in result.winners}

\* C4: with apathy_prob = 0 the tally of allocate_votes has one key per
\* candidate and sums to n_voters * votes, no voter adding more than one vote to
\* a candidate.
C4_EveryVoteCounted ==
    (system \in {"plurality", "approval"} /\ Elected /\ apathy_prob = 0) =>
        LET votes == IF system = "approval" THEN n_approvals_per_voter ELSE 1
        IN /\ DOMAIN electoral_vote_count = DOMAIN candidates
           /\ Sum(electoral_vote_count) = n_voters * votes
           /\ \A c \in DOMAIN candidates :
                 electoral_vote_count[c] \in 0 .. n_voters

C4_Witness ==
    /\ system = "approval"
    /\ Elected
    /\ apathy_prob = 0
    /\ n_approvals_per_voter = 2
    /\ n_candidates = 3
    /\ n_voters >= 3
    /\ \E c \in DOMAIN candidates : electoral_vote_count[c] = 0

\* C5: Plurality.elect and ApprovalVoting.elect return exactly one winner, whose
\* count is the largest of the tally and who has the smallest index among the
\* candidates with that count.
C5_WinnerIsFirstOfTheLargest ==
    (system \in {"plurality", "approval"} /\ Elected) =>
        \E w \in DOMAIN result.cast_votes :
            /\ result.winners = {w}
            /\ \A c \in DOMAIN result.cast_votes :
                  /\ result.cast_votes[c] <= result.cast_votes[w]
                  /\ c < w => result.cast_votes[c] < result.cast_votes[w]

C5_Witness ==
    /\ system = "plurality"
    /\ Elected
    /\ DOMAIN result.cast_votes = {0, 1}
    /\ result.cast_votes[0] = 2
    /\ result.cast_votes[1] = 2
    /\ result.winners = {0}

\* C6, as stated: for each of the four rules the counts of cast_votes sum to at
\* most the number of voters, and to exactly that number when apathy_prob is 0.
C6_CastVotesAtMostVoters ==
    Elected =>
        /\ Sum(result.cast_votes) <= n_voters
        /\ apathy_prob = 0 => Sum(result.cast_votes) = n_voters

\* C6, amended: that bound holds for Plurality and Majority; for ApprovalVoting
\* the bound is n_approvals_per_voter times the number of voters; for
\* ProportionalRepresentation cast_votes holds seats, at least seats_to_allocate
\* of them, whatever the number of voters.
C6_CastVotesBounds ==
    Elected =>
        LET cast == Sum(result.cast_votes)
        IN /\ system \in {"plurality", "majority"} =>
                 /\ cast <= n_voters
                 /\ apathy_prob = 0 => cast = n_voters
           /\ system = "approval" =>
                 /\ cast <= n_approvals_per_voter * n_voters
                 /\ apathy_prob = 0 => cast = n_approvals_per_voter * n_voters
           /\ system = "proportional" => cast >= seats

C6_Witness ==
    /\ system = "approval"
    /\ Elected
    /\ apathy_prob = 0
    /\ n_approvals_per_voter = 2
    /\ Sum(result.cast_votes) = 2 * n_voters
    /\ Sum(result.cast_votes) > n_voters

\* C7: the weight calculate_weighted_fairness gives a candidate is its share of
\* the votes cast, cast_votes[c] / sum(cast_votes) (both sides times votes_total).
C7_WeightsAreVoteShares ==
    (pc = "scored" /\ votes_total > 0) =>
        /\ DOMAIN avg_distances_weights = DOMAIN result.cast_votes
        /\ \A c \in DOMAIN result.cast_votes :
              avg_distances_weights[c] = result.cast_votes[c]
        /\ Sum(avg_distances_weights) = votes_total

\* C8: the candidates a non-terminal Majority round eliminates have no more votes
\* than any candidate it keeps.
C8_WorstPerformersEliminated ==
    (system = "majority" /\ pc = "round") =>
        \A out \in knocked_out :
            \A kept \in DOMAIN LastTally \ knocked_out :
                LastTally[out] <= LastTally[kept]

\* C9: starting from n >= 2 candidates, the round after an elimination has at
\* least 2 candidates, and a round eliminates min(round_knockouts, current - 2).
C9_KnockoutsClamped ==
    (system = "majority" /\ n_candidates >= 2 /\ pc = "round") =>
        LET current == Shape(LastTally)
        IN /\ Shape(round_candidates) >= 2
           /\ Cardinality(knocked_out) =
                 IF knockouts <= current - 2 THEN knockouts ELSE current - 2

\* C10: whatever apathy_prob is, no voter abstains in a Majority round or in the
\* allocation of ProportionalRepresentation: each tally sums to the number of
\* voters and is the tally of an electorate without apathy.
C10_NoVoterAbstains ==
    /\ system = "majority" =>
          /\ \A r \in 1 .. Len(results) : Sum(results[r].cast_votes) = n_voters
          /\ Elected =>
                result.cast_votes = allocate_votes(electorate, round_candidates, 1, {})
    /\ (system = "proportional" /\ pc # "start") =>
          /\ Sum(electoral_vote_count) = n_voters
          /\ electoral_vote_count = allocate_votes(electorate, candidates, 1, {})

C10_Witness ==
    /\ system = "majority"
    /\ apathy_prob = 100
    /\ Len(results) >= 2
    /\ Elected
    /\ Sum(result.cast_votes) = n_voters
====
